---- MODULE Spec2Model ----
(***************************************************************************)
(* A model of shrinkwraprs: the validation of a derive input (src/ast.rs), *)
(* the two derive entry points (src/lib.rs) and the conversion of a        *)
(* visibility into a path of components (src/visibility.rs).               *)
(***************************************************************************)
EXTENDS Integers, Sequences, FiniteSets, TLC

(* ---------------- bounds ---------------- *)
\* the longest field list of a declaration
MaxFields == 3
\* the longest path of a `pub(in ...)` visibility
MaxSegs == 2
\* the most attributes on a field
MaxAttrs == 2
\* the most items nested in a list attribute
MaxNested == 2

(* ---------------- syn::Visibility ---------------- *)
\* the identifiers a path segment is drawn from
Idents == {"self", "super", "a", "b"}

Public == [kind |-> "Public", path |-> <<>>]
Crate == [kind |-> "Crate", path |-> <<>>]
Inherited == [kind |-> "Inherited", path |-> <<>>]
Restricted(segs) == [kind |-> "Restricted", path |-> segs]

\* the paths the parser accepts in `pub(in path)`, `pub(self)`, `pub(super)`:
\* at least one segment
Paths == UNION {[1..n -> Idents] : n \in 1..MaxSegs}
Visibilities == {Public, Crate, Inherited} \cup {Restricted(p) : p \in Paths}

(* ---------------- visibility.rs: PathComponent, to_path ---------------- *)
Comp(k) == [kind |-> k, name |-> ""]
Mod(s) == [kind |-> "Mod", name |-> s]

\* to_path_restricted without the Pub, Crate prefix of an absolute path
to_path_restricted_bare(path) ==
  IF path = <<>> THEN <<>>
  ELSE LET ident == Head(path)
           rest == Tail(path)
           result == IF ident = "self" THEN <<Comp("InSelf")>>
                     ELSE IF ident = "super" THEN <<Comp("InSuper")>>
                     ELSE <<Mod(ident)>>
       IN result \o [i \in 1..Len(rest) |-> Mod(rest[i])]

\* to_path_restricted taking `super` for `self`
to_path_restricted_super(path) ==
  IF path = <<>> THEN <<>>
  ELSE LET ident == Head(path)
           rest == Tail(path)
           result == IF ident = "self" \/ ident = "super" THEN <<Comp("InSelf")>>
                     ELSE <<Comp("Pub"), Comp("Crate"), Mod(ident)>>
       IN result \o [i \in 1..Len(rest) |-> Mod(rest[i])]

to_path_restricted(path) ==
  IF path = <<>> THEN <<>>
  ELSE LET ident == Head(path)
           rest == Tail(path)
           result == IF ident = "self" THEN <<Comp("InSelf")>>
                     ELSE IF ident = "super" THEN <<Comp("InSuper")>>
                     ELSE <<Comp("Pub"), Comp("Crate"), Mod(ident)>>
       IN result \o [i \in 1..Len(rest) |-> Mod(rest[i])]

\* to_path giving a private visibility the path of `pub(self)`
to_path_private_self(vis) ==
  CASE vis.kind = "Public" -> <<Comp("Pub")>>
    [] vis.kind = "Crate" -> <<Comp("Pub"), Comp("Crate")>>
    [] vis.kind = "Inherited" -> <<Comp("InSelf")>>
    [] vis.kind = "Restricted" -> to_path_restricted(vis.path)

\* to_path giving `pub(crate)` a path that does not start at Pub
to_path_crate_only(vis) ==
  CASE vis.kind = "Public" -> <<Comp("Pub")>>
    [] vis.kind = "Crate" -> <<Comp("Crate")>>
    [] vis.kind = "Inherited" -> <<Comp("Inherited")>>
    [] vis.kind = "Restricted" -> to_path_restricted(vis.path)

to_path(vis) ==
  CASE vis.kind = "Public" -> <<Comp("Pub")>>
    [] vis.kind = "Crate" -> <<Comp("Pub"), Comp("Crate")>>
    [] vis.kind = "Inherited" -> <<Comp("Inherited")>>
    [] vis.kind = "Restricted" -> to_path_restricted(vis.path)

(* ---------------- ast.rs: fields and their attributes ---------------- *)
\* an attribute as attr.interpret_meta() sees it: a Meta::List with its
\* nested items, a Meta::Word, or nothing
Word(w) == [kind |-> "Word", ident |-> w, nested |-> <<>>]
List(id, items) == [kind |-> "List", ident |-> id, nested |-> items]

\* a literal nested in a list, as in #[shrinkwrap("main_field")]
Literal(l) == [kind |-> "Literal", ident |-> l, nested |-> <<>>]
\* a name-value attribute, as in #[shrinkwrap = "main_field"]
NameValue(id) == [kind |-> "NameValue", ident |-> id, nested |-> <<>>]
\* an attribute that interpret_meta() cannot read as a meta item
NoMeta == [kind |-> "None", ident |-> "", nested |-> <<>>]

\* the items nested in a list attribute
NestedMetas == {Word("main_field"), Word("other"), Literal("main_field")}
NestedLists == UNION {[1..n -> NestedMetas] : n \in 0..MaxNested}

\* the attributes of a field
Attributes ==
  {List(id, items) : id \in {"shrinkwrap", "other"}, items \in NestedLists}
    \cup {Word("shrinkwrap"), NameValue("shrinkwrap"), NoMeta}

AttrLists ==
  { <<>>,
    <<List("shrinkwrap", <<Word("main_field")>>)>>,
    <<List("shrinkwrap", <<Word("other")>>)>> }

FieldVisibilities == {Public, Crate, Inherited}

\* is_marked taking the first nested item, whatever follows it
is_marked_first(field) ==
  \E k \in 1..Len(field.attrs) :
    LET meta == field.attrs[k]
        is_main_field == /\ Len(meta.nested) >= 1
                         /\ meta.nested[1].kind = "Word"
                         /\ meta.nested[1].ident = "main_field"
    IN meta.kind = "List" /\ meta.ident = "shrinkwrap" /\ is_main_field

is_marked(field) ==
  \E k \in 1..Len(field.attrs) :
    LET meta == field.attrs[k]
        is_main_field == /\ Len(meta.nested) = 1
                         /\ meta.nested[1].kind = "Word"
                         /\ meta.nested[1].ident = "main_field"
    IN meta.kind = "List" /\ meta.ident = "shrinkwrap" /\ is_main_field

NoIdent == -1

PanicForgot == "Did you forget to mark a field with #[shrinkwrap(main_field)]?"
PanicMultiple == "Did you accidentally mark more than one field with #[shrinkwrap(main_field)]?"
PanicGenerics == "currently, shrinkwraprs does not support structs with lifetimes or generics"
PanicNoFields == "shrinkwraprs needs a struct with at least one field!"
PanicEnum == "shrinkwraprs does not support enums"
PanicUnion == "shrinkwraprs does not support C-style unions"
PanicEmptyTuple == "shrinkwraprs requires tuple structs to have at least one field"
PanicEmptyStruct == "shrinkwraprs requires structs to have at least one field"

Panic(m) == [tag |-> "panic", msg |-> m]

enumerate(fields) == [i \in 1..Len(fields) |-> <<i - 1, fields[i]>>]

\* find_marked_field returning the first field instead of the marked one
find_marked_field_first(fields) ==
  LET marked == SelectSeq(enumerate(fields), LAMBDA p : is_marked(p[2]))
      unmarked == SelectSeq(enumerate(fields), LAMBDA p : ~is_marked(p[2]))
      marked_len == Len(marked)
  IN IF marked_len = 1
       THEN [tag |-> "ok", index |-> 0, field |-> fields[1],
             unmarked |-> Tail(fields)]
     ELSE IF Len(unmarked) = 1
       THEN [tag |-> "ok", index |-> unmarked[1][1], field |-> unmarked[1][2],
             unmarked |-> <<>>]
     ELSE IF marked_len = 0 THEN Panic(PanicForgot)
     ELSE Panic(PanicMultiple)

\* find_marked_field with the test on marked_len inverted
find_marked_field_swapped(fields) ==
  LET marked == SelectSeq(enumerate(fields), LAMBDA p : is_marked(p[2]))
      unmarked == SelectSeq(enumerate(fields), LAMBDA p : ~is_marked(p[2]))
      marked_len == Len(marked)
  IN IF marked_len = 1
       THEN [tag |-> "ok", index |-> marked[1][1], field |-> marked[1][2],
             unmarked |-> [i \in 1..Len(unmarked) |-> unmarked[i][2]]]
     ELSE IF Len(unmarked) = 1
       THEN [tag |-> "ok", index |-> unmarked[1][1], field |-> unmarked[1][2],
             unmarked |-> <<>>]
     ELSE IF marked_len # 0 THEN Panic(PanicForgot)
     ELSE Panic(PanicMultiple)

\* find_marked_field without the arm for a lone unmarked field
find_marked_field_nolone(fields) ==
  LET marked == SelectSeq(enumerate(fields), LAMBDA p : is_marked(p[2]))
      unmarked == SelectSeq(enumerate(fields), LAMBDA p : ~is_marked(p[2]))
      marked_len == Len(marked)
  IN IF marked_len = 1
       THEN [tag |-> "ok", index |-> marked[1][1], field |-> marked[1][2],
             unmarked |-> [i \in 1..Len(unmarked) |-> unmarked[i][2]]]
     ELSE IF marked_len = 0 THEN Panic(PanicForgot)
     ELSE Panic(PanicMultiple)

find_marked_field(fields) ==
  LET marked == SelectSeq(enumerate(fields), LAMBDA p : is_marked(p[2]))
      unmarked == SelectSeq(enumerate(fields), LAMBDA p : ~is_marked(p[2]))
      marked_len == Len(marked)
  IN IF marked_len = 1
       THEN [tag |-> "ok", index |-> marked[1][1], field |-> marked[1][2],
             unmarked |-> [i \in 1..Len(unmarked) |-> unmarked[i][2]]]
     ELSE IF Len(unmarked) = 1
       THEN [tag |-> "ok", index |-> unmarked[1][1], field |-> unmarked[1][2],
             unmarked |-> <<>>]
     ELSE IF marked_len = 0 THEN Panic(PanicForgot)
     ELSE Panic(PanicMultiple)

validate_tuple(fields) ==
  IF Len(fields) = 0 THEN Panic(PanicEmptyTuple)
  ELSE LET r == find_marked_field(fields)
       IN IF r.tag = "panic" THEN r
          ELSE IF Len(r.unmarked) = 0
            THEN [tag |-> "Tuple", inner_type |-> r.field.ty]
          ELSE [tag |-> "NaryTuple", inner_field_index |-> r.index,
                inner_type |-> r.field.ty]

validate_struct(fields) ==
  IF Len(fields) = 0 THEN Panic(PanicEmptyStruct)
  ELSE LET r == find_marked_field(fields)
       IN IF r.tag = "panic" THEN r
          ELSE IF Len(r.unmarked) = 0
            THEN [tag |-> "Single", inner_field |-> r.field.ident,
                  inner_type |-> r.field.ty, inner_visibility |-> r.field.vis]
          ELSE [tag |-> "Multi", inner_field |-> r.field.ident,
                inner_type |-> r.field.ty, inner_visibility |-> r.field.vis]

validate_derive_input(input) ==
  IF input.generics THEN Panic(PanicGenerics)
  ELSE CASE input.data = "Struct" /\ input.shape = "Unnamed" -> validate_tuple(input.fields)
         [] input.data = "Struct" /\ input.shape = "Named" -> validate_struct(input.fields)
         [] input.data = "Struct" /\ input.shape = "Unit" -> Panic(PanicNoFields)
         [] input.data = "Enum" -> Panic(PanicEnum)
         [] input.data = "Union" -> Panic(PanicUnion)

(* ---------------- lib.rs: code generation ---------------- *)
ImmutTraits == {"Deref", "Borrow", "AsRef"}
MutTraits == {"DerefMut", "BorrowMut", "AsMut"}

impl_immut_borrows(info) ==
  [traits |-> ImmutTraits, inner_type |-> info.inner_type, borrow_expr |-> info.borrow_expr]

impl_mut_borrows(info) ==
  [traits |-> MutTraits, inner_type |-> info.inner_type, borrow_expr |-> info.borrow_expr]

\* the expression `self.0`, `self.<index>` or `self.<field>`
SelfIndex(n) == [member |-> "index", of |-> n]
SelfField(id) == [member |-> "field", of |-> id]

GenBorrowInfo(input) ==
  [inner_type |-> input.inner_type,
   borrow_expr |-> CASE input.tag = "Tuple" -> SelfIndex(0)
                     [] input.tag = "NaryTuple" -> SelfIndex(input.inner_field_index)
                     [] input.tag = "Single" -> SelfField(input.inner_field)
                     [] input.tag = "Multi" -> SelfField(input.inner_field)]

NoTokens == [traits |-> {}, inner_type |-> NoIdent, borrow_expr |-> SelfIndex(NoIdent)]

shrinkwrap(input) ==
  LET parsed == validate_derive_input(input)
  IN IF parsed.tag = "panic" THEN NoTokens ELSE impl_immut_borrows(GenBorrowInfo(parsed))

shrinkwrap_mut(input) ==
  LET parsed == validate_derive_input(input)
  IN IF parsed.tag = "panic" THEN NoTokens ELSE impl_mut_borrows(GenBorrowInfo(parsed))

(* ---------------- containment of two paths ---------------- *)
IsPrefix(p, q) == Len(p) <= Len(q) /\ SubSeq(q, 1, Len(p)) = p

\* the verdict on a field's path (inner) against its struct's path (outer)
contains(outer, inner) ==
  IF outer = <<>> \/ inner = <<>> THEN "CantDetermine"
  ELSE IF Head(outer).kind # Head(inner).kind THEN "CantDetermine"
  ELSE IF IsPrefix(outer, inner) THEN "Visible"
  ELSE "Restricted"

(* ---------------- the derive inputs ---------------- *)
\* the fields of a declaration: each with its attributes and visibility, its
\* type (one per position) and, in a struct with named fields, its name
Fields(shape, f) ==
  [i \in DOMAIN f |-> [attrs |-> f[i][1], vis |-> f[i][2], ty |-> i - 1,
                       ident |-> IF shape = "Named" THEN i - 1 ELSE NoIdent]]

DeriveInput(d, sh, g, v, fs) ==
  [data |-> d, shape |-> sh, generics |-> g, vis |-> v, fields |-> fs]

\* what a derive macro can be handed: a tuple struct or a struct with named
\* fields (of 0..MaxFields fields), a unit struct, an enum or a union
IsDeriveInput(input) ==
  \/ \E sh \in {"Named", "Unnamed"}, g \in BOOLEAN, v \in FieldVisibilities,
        n \in 0..MaxFields :
       \E f \in [1..n -> AttrLists \X FieldVisibilities] :
         input = DeriveInput("Struct", sh, g, v, Fields(sh, f))
  \/ \E d \in {"Struct", "Enum", "Union"}, v \in FieldVisibilities :
       input = DeriveInput(d, "Unit", FALSE, v, <<>>)

(* ---------------- state ---------------- *)
VARIABLES
  decl,        \* the syn::DeriveInput handed to the derive macro
  pc,          \* "start", then "done" or "panicked"
  mode,        \* which derive ran: "Shrinkwrap" or "ShrinkwrapMut"
  selection,   \* what find_marked_field returned, "unreached" when not called
  parsed,      \* what validate_derive_input returned
  tokens,      \* the generated impls
  struct_vis,  \* the visibility of a struct
  field_vis,   \* the visibility of its inner field
  struct_path, \* to_path(struct_vis)
  field_path,  \* to_path(field_vis)
  verdict,     \* the FieldVisibility of the two paths
  vpc,         \* "start", "paths", "done"
  probe,       \* a field whose attributes are looked at
  marked,      \* is_marked(probe)
  apc          \* "start", "done"

vars == <<decl, pc, mode, selection, parsed, tokens,
          struct_vis, field_vis, struct_path, field_path, verdict, vpc,
          probe, marked, apc>>
deriveVars == <<decl, pc, mode, selection, parsed, tokens>>
visVars == <<struct_vis, field_vis, struct_path, field_path, verdict, vpc>>
attrVars == <<probe, marked, apc>>

Unreached == [tag |-> "unreached"]

\* find_marked_field as validate_derive_input reaches it
Selection(input) ==
  IF /\ ~input.generics
     /\ input.data = "Struct"
     /\ input.shape \in {"Named", "Unnamed"}
     /\ Len(input.fields) # 0
  THEN find_marked_field(input.fields)
  ELSE Unreached

DeriveIdle ==
  /\ pc = "idle" /\ mode = "none" /\ decl = DeriveInput("Struct", "Unit", FALSE, Inherited, <<>>)
  /\ selection = Unreached /\ parsed = Unreached /\ tokens = NoTokens

VisIdle ==
  /\ vpc = "idle" /\ struct_vis = Inherited /\ field_vis = Inherited
  /\ struct_path = <<>> /\ field_path = <<>> /\ verdict = "none"

AttrIdle ==
  /\ apc = "idle" /\ marked = FALSE
  /\ probe = [attrs |-> <<>>, vis |-> Inherited, ty |-> 0, ident |-> NoIdent]

\* a derive macro is about to run on some declaration
Init ==
  /\ IsDeriveInput(decl)
  /\ pc = "start" /\ mode = "none"
  /\ selection = Unreached /\ parsed = Unreached /\ tokens = NoTokens
  /\ VisIdle
  /\ AttrIdle

\* #[derive(Shrinkwrap)]
Shrinkwrap ==
  /\ pc = "start"
  /\ mode' = "Shrinkwrap"
  /\ selection' = Selection(decl)
  /\ parsed' = validate_derive_input(decl)
  /\ tokens' = shrinkwrap(decl)
  /\ pc' = IF parsed'.tag = "panic" THEN "panicked" ELSE "done"
  /\ UNCHANGED decl
  /\ UNCHANGED visVars
  /\ UNCHANGED attrVars

\* #[derive(ShrinkwrapMut)]
ShrinkwrapMut ==
  /\ pc = "start"
  /\ mode' = "ShrinkwrapMut"
  /\ selection' = Selection(decl)
  /\ parsed' = validate_derive_input(decl)
  /\ tokens' = shrinkwrap_mut(decl)
  /\ pc' = IF parsed'.tag = "panic" THEN "panicked" ELSE "done"
  /\ UNCHANGED decl
  /\ UNCHANGED visVars
  /\ UNCHANGED attrVars

Next == Shrinkwrap \/ ShrinkwrapMut

Spec == Init /\ [][Next]_vars

(* ---------------- the visibility paths ---------------- *)
VisInit ==
  /\ struct_vis \in Visibilities /\ field_vis \in Visibilities
  /\ struct_path = <<>> /\ field_path = <<>> /\ verdict = "none"
  /\ vpc = "start"
  /\ DeriveIdle
  /\ AttrIdle

\* both visibilities are converted to paths
ToPath ==
  /\ vpc = "start"
  /\ struct_path' = to_path(struct_vis)
  /\ field_path' = to_path(field_vis)
  /\ vpc' = "paths"
  /\ UNCHANGED <<struct_vis, field_vis, verdict>>
  /\ UNCHANGED deriveVars
  /\ UNCHANGED attrVars

\* the field's path is checked against the struct's
Contains ==
  /\ vpc = "paths"
  /\ verdict' = contains(struct_path, field_path)
  /\ vpc' = "done"
  /\ UNCHANGED <<struct_vis, field_vis, struct_path, field_path>>
  /\ UNCHANGED deriveVars
  /\ UNCHANGED attrVars

VisNext == ToPath \/ Contains

VisSpec == VisInit /\ [][VisNext]_vars

(* ---------------- field selection ---------------- *)
\* the positions (1-based) of the fields that carry the marker
MarkedPositions == {i \in 1..Len(decl.fields) : is_marked(decl.fields[i])}

\* the derive ran and validation got as far as find_marked_field
Selected == pc # "start" /\ selection # Unreached

\* C1: when exactly one field is marked, whatever the number and the order
\* of the fields, find_marked_field returns that field with its 0-based
\* position, and does not panic.
C1_SingleMarkedIsSelected ==
  (Selected /\ Cardinality(MarkedPositions) = 1) =>
     /\ selection.tag = "ok"
     /\ \A i \in MarkedPositions :
          selection.index = i - 1 /\ selection.field = decl.fields[i]
     /\ is_marked(selection.field)
     /\ pc = "done"

C1_Witness ==
  /\ pc = "done" /\ Len(decl.fields) = 3 /\ MarkedPositions = {2}
  /\ selection.tag = "ok" /\ selection.index = 1

\* C2: when two or more fields are marked, find_marked_field panics with
\* the "accidentally mark more than one field" message, whatever the number
\* of unmarked fields.
C2_MultiplyMarkedPanics ==
  (Selected /\ Cardinality(MarkedPositions) >= 2) =>
     /\ selection = Panic(PanicMultiple)
     /\ pc = "panicked"

\* C3: when there is more than one field and none is marked,
\* find_marked_field panics with the "forget to mark a field" message.
C3_UnmarkedIsAmbiguous ==
  (Selected /\ Len(decl.fields) > 1 /\ MarkedPositions = {}) =>
     /\ selection = Panic(PanicForgot)
     /\ parsed = Panic(PanicForgot)
     /\ pc = "panicked"

C3_Witness ==
  /\ pc = "panicked" /\ Len(decl.fields) = 3 /\ MarkedPositions = {}
  /\ selection = Panic(PanicForgot)

\* C4: a declaration with exactly one field selects that field, marked or
\* not, with no unmarked field left, and is classified Tuple (tuple struct)
\* or Single (struct with named fields).
C4_LoneFieldIsSelected ==
  (Selected /\ Len(decl.fields) = 1) =>
     /\ selection.tag = "ok"
     /\ selection.field = decl.fields[1]
     /\ selection.index = 0
     /\ selection.unmarked = <<>>
     /\ parsed.tag = (IF decl.shape = "Unnamed" THEN "Tuple" ELSE "Single")
     /\ parsed.inner_type = decl.fields[1].ty
     /\ pc = "done"

C4_Witness ==
  /\ pc = "done" /\ Len(decl.fields) = 1 /\ MarkedPositions = {}
  /\ decl.shape = "Named" /\ parsed.tag = "Single"

(* ---------------- mutable access ---------------- *)
\* C5: #[derive(ShrinkwrapMut)] emits DerefMut / BorrowMut / AsMut only when
\* a field was selected and that field's path is Visible against the path
\* of the declaration.
C5_MutOnlyWhenVisible ==
  (pc # "start" /\ mode = "ShrinkwrapMut" /\ tokens.traits \cap MutTraits # {}) =>
     /\ selection # Unreached
     /\ selection.tag = "ok"
     /\ contains(to_path(decl.vis), to_path(selection.field.vis)) = "Visible"

(* ---------------- paths of visibilities ---------------- *)
\* both visibilities have been converted
Converted == vpc \in {"paths", "done"}

StrictPrefix(p, q) == IsPrefix(p, q) /\ Len(p) < Len(q)

\* a `pub(in ...)` path that starts neither at self nor at super
IsAbsolute(vis) == vis.kind = "Restricted" /\ vis.path[1] \notin {"self", "super"}

\* C6 as stated: a private visibility (no modifier) converts to the
\* one-component path [InSelf], the path of `pub(self)`.
C6_PrivateIsSelf ==
  (Converted /\ struct_vis = Inherited) =>
     /\ struct_path = <<Comp("InSelf")>>
     /\ (field_vis = Restricted(<<"self">>) => struct_path = field_path)

\* C6 amended: a private visibility converts to the one-component path
\* [Inherited], which is not the path [InSelf] of `pub(self)`.
C6_PrivateIsInherited ==
  Converted =>
     /\ (struct_vis = Inherited => struct_path = <<Comp("Inherited")>>)
     /\ (field_vis = Inherited => field_path = <<Comp("Inherited")>>)
     /\ (struct_vis = Inherited /\ field_vis = Restricted(<<"self">>) =>
           field_path = <<Comp("InSelf")>> /\ struct_path # field_path)

C6_Witness ==
  /\ vpc = "paths" /\ struct_vis = Inherited /\ field_vis = Restricted(<<"self">>)
  /\ struct_path = <<Comp("Inherited")>>

\* the path that C7 describes for a restricted visibility
RestrictedShape(vis, path) ==
  LET segs == vis.path
      first == segs[1]
      lead == IF first \in {"self", "super"} THEN 1 ELSE 3
  IN /\ first = "self" => path[1] = Comp("InSelf")
     /\ first = "super" => path[1] = Comp("InSuper")
     /\ first \notin {"self", "super"} =>
          /\ path[1] = Comp("Pub") /\ path[2] = Comp("Crate")
          /\ path[3] = Mod(first)
     /\ Len(path) = Len(segs) + lead - 1
     /\ \A i \in 2..Len(segs) : path[lead + i - 1] = Mod(segs[i])

\* C7: a restricted visibility with a non-empty path converts by its first
\* segment: self gives InSelf, super gives InSuper, anything else gives
\* Pub, Crate, Mod(first); the other segments follow as Mod, in order.
C7_RestrictedByFirstSegment ==
  Converted =>
     /\ (struct_vis.kind = "Restricted" => RestrictedShape(struct_vis, struct_path))
     /\ (field_vis.kind = "Restricted" => RestrictedShape(field_vis, field_path))

C7_Witness ==
  /\ vpc = "paths" /\ struct_vis = Restricted(<<"a", "super">>)
  /\ struct_path = <<Comp("Pub"), Comp("Crate"), Mod("a"), Mod("super")>>
  /\ field_vis = Restricted(<<"super", "b">>)
  /\ field_path = <<Comp("InSuper"), Mod("b")>>

\* C8: `pub` converts to [Pub] and `pub(crate)` to [Pub, Crate]; the first
\* is a strict prefix of the second, which is a strict prefix of the path of
\* every absolute restricted visibility.
C8_PubCratePrefixes ==
  Converted =>
     /\ (struct_vis = Public => struct_path = <<Comp("Pub")>>)
     /\ (struct_vis = Crate => struct_path = <<Comp("Pub"), Comp("Crate")>>)
     /\ (struct_vis = Public /\ field_vis = Crate => StrictPrefix(struct_path, field_path))
     /\ (struct_vis = Crate /\ IsAbsolute(field_vis) => StrictPrefix(struct_path, field_path))

C8_Witness ==
  /\ vpc = "paths" /\ struct_vis = Crate /\ field_vis = Restricted(<<"a", "b">>)
  /\ StrictPrefix(struct_path, field_path)

(* ---------------- containment ---------------- *)
\* C9: a `pub` struct with a `pub(crate)` field is Restricted, and a
\* `pub(crate)` struct with a `pub` field is Visible.
C9_VisibleWhenFieldAtLeastAsVisible ==
  vpc = "done" =>
     /\ (struct_vis = Public /\ field_vis = Crate => verdict = "Restricted")
     /\ (struct_vis = Crate /\ field_vis = Public => verdict = "Visible")

\* the family of a path, among the three of C10
Family3(path) ==
  IF path = <<>> THEN "none"
  ELSE CASE Head(path).kind = "Pub" -> "absolute"
         [] Head(path).kind = "InSelf" -> "self"
         [] Head(path).kind = "InSuper" -> "parent"
         [] OTHER -> "none"

\* C10 as stated: every path the conversion produces, the one of a private
\* visibility included, is absolute, self-relative or parent-relative; two
\* paths of different families cannot be determined, in either order, and
\* two of the same family are Visible or Restricted.
C10_ThreeFamilies ==
  vpc = "done" =>
     /\ Family3(struct_path) # "none" /\ Family3(field_path) # "none"
     /\ Family3(struct_path) # Family3(field_path) =>
          /\ verdict = "CantDetermine"
          /\ contains(field_path, struct_path) = "CantDetermine"
     /\ Family3(struct_path) = Family3(field_path) =>
          verdict \in {"Visible", "Restricted"}

\* the family of a visibility, a private one being a family of its own
VisFamily(vis) ==
  CASE vis.kind \in {"Public", "Crate"} -> "absolute"
    [] vis.kind = "Inherited" -> "inherited"
    [] vis.kind = "Restricted" ->
         IF vis.path[1] = "self" THEN "self"
         ELSE IF vis.path[1] = "super" THEN "parent"
         ELSE "absolute"

\* C10 amended: with a private visibility as a fourth family, two
\* visibilities of different families cannot be determined, in either
\* order, and two of the same family are Visible or Restricted.
C10_FourFamilies ==
  vpc = "done" =>
     /\ VisFamily(struct_vis) # VisFamily(field_vis) =>
          /\ verdict = "CantDetermine"
          /\ contains(field_path, struct_path) = "CantDetermine"
     /\ VisFamily(struct_vis) = VisFamily(field_vis) =>
          verdict \in {"Visible", "Restricted"}

C10_Witness ==
  /\ vpc = "done" /\ struct_vis = Inherited /\ field_vis = Restricted(<<"self", "a">>)
  /\ verdict = "CantDetermine"

(* ---------------- the marker attribute ---------------- *)
\* a field with some attributes is about to be looked at
AttrInit ==
  /\ \E n \in 0..MaxAttrs : \E a \in [1..n -> Attributes] :
       probe = [attrs |-> a, vis |-> Inherited, ty |-> 0, ident |-> 0]
  /\ marked = FALSE
  /\ apc = "start"
  /\ DeriveIdle
  /\ VisIdle

IsMarked ==
  /\ apc = "start"
  /\ marked' = is_marked(probe)
  /\ apc' = "done"
  /\ UNCHANGED probe
  /\ UNCHANGED deriveVars
  /\ UNCHANGED visVars

AttrNext == IsMarked

AttrSpec == AttrInit /\ [][AttrNext]_vars

\* the attribute #[shrinkwrap(main_field)]
MainFieldAttr == List("shrinkwrap", <<Word("main_field")>>)

\* the attributes of a field, as a set
AttrsOf(field) == {field.attrs[k] : k \in DOMAIN field.attrs}

\* C11: a field is marked exactly when one of its attributes is the list
\* `shrinkwrap` holding the single word `main_field`; no attribute, a list
\* of another name, another word, a literal or more than one item leave it
\* unmarked.
C11_MarkedIffMainFieldAttr ==
  apc = "done" =>
     /\ marked <=> MainFieldAttr \in AttrsOf(probe)
     /\ (AttrsOf(probe) \subseteq
           { List("other", <<Word("main_field")>>),
             List("shrinkwrap", <<Word("other")>>),
             List("shrinkwrap", <<Literal("main_field")>>),
             List("shrinkwrap", <<Word("main_field"), Word("other")>>),
             List("shrinkwrap", <<Word("other"), Word("main_field")>>),
             List("shrinkwrap", <<>>), Word("shrinkwrap"),
             NameValue("shrinkwrap"), NoMeta }
         => ~marked)

C11_Witness ==
  /\ apc = "done" /\ marked
  /\ probe.attrs = <<List("shrinkwrap", <<Word("main_field"), Word("other")>>), MainFieldAttr>>

(* ---------------- shape classification ---------------- *)
\* C12: a Tuple or Single result means the declaration has exactly one
\* field, the selected one, at position 0 (the position `self.0` reads); a
\* declaration of more than one field whose selection succeeds is a
\* NaryTuple or Multi, and records the selected field's 0-based position.
C12_ShapeMatchesFieldCount ==
  pc = "done" =>
     /\ parsed.tag \in {"Tuple", "Single"} =>
          /\ Len(decl.fields) = 1
          /\ selection.index = 0
          /\ selection.field = decl.fields[1]
          /\ parsed.inner_type = decl.fields[1].ty
     /\ (Len(decl.fields) > 1 /\ selection.tag = "ok") =>
          /\ parsed.tag \in {"NaryTuple", "Multi"}
          /\ decl.fields[selection.index + 1] = selection.field
          /\ parsed.tag = "NaryTuple" => parsed.inner_field_index = selection.index
          /\ parsed.tag = "Multi" => parsed.inner_field = selection.field.ident

====
